---- MODULE Spec2Model ----
(***************************************************************************)
(* Behaviour layer of the marketing page (src/src/main.ts): the bootstrap  *)
(* (init), the four setup routines and the event handlers they register,   *)
(* run against a host document chosen from a bounded family of documents.  *)
(*                                                                         *)
(* Strings the code inspects character by character (CSS selectors built   *)
(* from href attributes, button labels that are trimmed) are sequences of  *)
(* one-character strings; strings the code only compares or concatenates   *)
(* (field values, alert texts) are TLA+ strings.                           *)
(***************************************************************************)
EXTENDS Integers, Sequences, FiniteSets, TLC

\* ---------------------------------------------------------------- bounds
MaxButtons == 2     \* buttons in the document
MaxLinks   == 1     \* fragment-style links in the document
MaxClicks  == 2     \* runs of the menu-toggle handler that are followed

\* ------------------------------------------------------------- utilities
Range(s) == {s[i] : i \in 1..Len(s)}

SeqsUpTo(S, n) == UNION {[1..k -> S] : k \in 0..n}

\* ------------------------------------------------- character-level strings
Digits == {"0", "1", "2", "3", "4", "5", "6", "7", "8", "9"}

Letters ==
    {"a", "b", "c", "d", "e", "f", "g", "h", "i", "j", "k", "l", "m",
     "n", "o", "p", "q", "r", "s", "t", "u", "v", "w", "x", "y", "z",
     "A", "B", "C", "D", "E", "F", "G", "H", "I", "J", "K", "L", "M",
     "N", "O", "P", "Q", "R", "S", "T", "U", "V", "W", "X", "Y", "Z"}

WhiteSpace == {" ", "\t", "\n"}

\* element ids
contactId   == <<"c", "o", "n", "t", "a", "c", "t">>
portfolioId == <<"p", "o", "r", "t", "f", "o", "l", "i", "o">>
homeId      == <<"h", "o", "m", "e">>
firstId     == <<"1", "s", "t">>

\* the selectors the button handlers pass to document.querySelector
ContactSelector   == <<"#">> \o contactId
PortfolioSelector == <<"#">> \o portfolioId

\* the labels setupButtons compares against
GetStarted == <<"G", "e", "t", " ", "S", "t", "a", "r", "t", "e", "d">>
GetAQuote  == <<"G", "e", "t", " ", "a", " ", "Q", "u", "o", "t", "e">>
ViewWork   == <<"V", "i", "e", "w", " ", "W", "o", "r", "k">>

\* String.prototype.trim
RECURSIVE TrimStart(_)
TrimStart(s) ==
    IF s # <<>> /\ Head(s) \in WhiteSpace THEN TrimStart(Tail(s)) ELSE s

RECURSIVE TrimEnd(_)
TrimEnd(s) ==
    IF s # <<>> /\ s[Len(s)] \in WhiteSpace
    THEN TrimEnd(SubSeq(s, 1, Len(s) - 1))
    ELSE s

Trim(s) == TrimEnd(TrimStart(s))

\* A CSS identifier: non-empty, name characters only, no leading digit.
IsIdent(s) ==
    /\ s # <<>>
    /\ s[1] \notin Digits
    /\ \A i \in 1..Len(s) : s[i] \in Letters \cup Digits \cup {"-", "_"}

\* document.querySelector(sel) for the selectors this script builds ("#" followed
\* by the rest of an href, or a literal "#id"): a SyntaxError when sel is not a
\* valid selector, else the element with that id, else null.
QuerySelector(sel, ids) ==
    IF ~(sel # <<>> /\ sel[1] = "#" /\ IsIdent(Tail(sel)))
    THEN [kind |-> "SyntaxError", id |-> <<>>]
    ELSE IF Tail(sel) \in ids
         THEN [kind |-> "element", id |-> Tail(sel)]
         ELSE [kind |-> "null", id |-> <<>>]

\* ------------------------------------------------------------ menu classes
\* the classes the click handler toggles, in the order it toggles them
ToggledClasses ==
    <<"hidden", "flex", "flex-col", "absolute", "top-16", "left-0",
      "w-full", "bg-white", "shadow-lg", "p-4">>

\* the classes the panel selector '.hidden.md\:flex' requires
SelectorClasses == {"hidden", "md:flex"}

\* DOMTokenList.toggle without a force argument
ToggleAlwaysAdds(cl, c) == cl \cup {c}

Toggle(cl, c) == IF c \in cl THEN cl \ {c} ELSE cl \cup {c}

RECURSIVE ToggleAll(_, _)
ToggleAll(cl, cs) ==
    IF cs = <<>> THEN cl ELSE ToggleAll(Toggle(cl, Head(cs)), Tail(cs))

\* --------------------------------------------------------------- the form
FieldNames == {"name", "email", "subject", "message"}

\* what the user types into a field
Sample(f) ==
    CASE f = "name"    -> "Ada"
      [] f = "email"   -> "ada@example.com"
      [] f = "subject" -> "Hi"
      [] f = "message" -> "Hello"

\* a default the markup may give a control (value="..." or textarea content)
DefaultText == "draft"

NoDefaults == [f \in FieldNames |-> ""]

NoForm == [present |-> FALSE, fields |-> {}, defaults |-> NoDefaults]

\* forms with at most one of the four controls absent and at most one control
\* carrying a default value
Forms ==
    {[present |-> TRUE, fields |-> FieldNames \ missing,
      defaults |-> [f \in FieldNames |-> IF f \in dflt THEN DefaultText ELSE ""]] :
        missing \in {m \in SUBSET FieldNames : Cardinality(m) <= 1},
        dflt \in {m \in SUBSET FieldNames : Cardinality(m) <= 1}}

StandardForm ==
    [present |-> TRUE, fields |-> FieldNames, defaults |-> NoDefaults]

\* nameInput?.value and its three siblings: undefined when the control is absent
ValueOf(form, vals, f) ==
    IF f \in form.fields
    THEN [defined |-> TRUE, value |-> vals[f]]
    ELSE [defined |-> FALSE, value |-> ""]

\* JavaScript truthiness of a string-or-undefined
Truthy(v) == v.defined /\ v.value # ""

SuccessText(name, email) ==
    "Thank you " \o name \o "! Your message has been received. We'll get back to you at "
        \o email \o " soon!"

FailureText == "Please fill in all fields before submitting."

\* HTMLFormElement.reset: every control goes back to its default value
FormReset(form, vals) == [f \in FieldNames |-> form.defaults[f]]

\* ------------------------------------------------------------ the document
IconLabel       == <<>>
PaddedViewWork  == <<" ">> \o ViewWork \o <<"\n">>
LowerViewWork   == <<"v", "i", "e", "w", " ", "w", "o", "r", "k">>

LabelSet == {GetStarted, GetAQuote, ViewWork, PaddedViewWork, LowerViewWork, IconLabel}

HrefSet == {<<"#">>, <<"#">> \o contactId, <<"#">> \o homeId, <<"#">> \o firstId}

CleanMenu == SelectorClasses

Document(buttons, menuButton, hasMenu, menuClasses, links, ids, form) ==
    [buttons |-> buttons, menuButton |-> menuButton, hasMenu |-> hasMenu,
     menuClasses |-> menuClasses, links |-> links, ids |-> ids, form |-> form]

\* documents that vary the buttons and the two sections they scroll to; the
\* trigger, when the page has one, is its first button
ButtonDocs ==
    {d \in {Document(b, t, m, CleanMenu, <<>>, ids, NoForm) :
                b \in SeqsUpTo(LabelSet, MaxButtons), t \in {0, 1}, m \in BOOLEAN,
                ids \in SUBSET {contactId, portfolioId}} :
        d.menuButton <= Len(d.buttons)}

\* documents that vary the links and the elements they point at
LinkDocs ==
    {Document(b, Len(b), TRUE, CleanMenu, l, ids, NoForm) :
        b \in {<<>>, <<IconLabel>>}, l \in SeqsUpTo(HrefSet, MaxLinks),
        ids \in SUBSET {contactId, firstId}}

\* documents that vary the form
FormDocs ==
    {Document(b, Len(b), TRUE, CleanMenu, <<>>, {}, f) :
        b \in {<<>>, <<IconLabel>>}, f \in Forms}

\* documents that vary the navigation panel: absent, or matched by the panel
\* selector with any of the toggled classes already present in the markup
MenuDocs ==
    {Document(<<IconLabel>>, 1, m, SelectorClasses \cup extra, <<>>, {}, NoForm) :
        m \in BOOLEAN, extra \in SUBSET {"flex", "p-4"}}

\* documents that combine presence and absence of every part
MixedDocs ==
    {Document(b, t, m, CleanMenu, l, {contactId, portfolioId}, f) :
        b \in {<<IconLabel>>, <<IconLabel, GetStarted>>}, t \in {0, 1},
        m \in BOOLEAN, l \in {<<>>, <<(<<"#">> \o contactId)>>},
        f \in {NoForm, StandardForm}}
    \cup
    {Document(<<>>, 0, m, CleanMenu, l, {contactId, portfolioId}, f) :
        m \in BOOLEAN, l \in {<<>>, <<(<<"#">> \o contactId)>>},
        f \in {NoForm, StandardForm}}

Documents == ButtonDocs \cup LinkDocs \cup FormDocs \cup MenuDocs \cup MixedDocs

\* ------------------------------------------------------ registered handlers
ButtonTarget(i) == <<"button", i>>
LinkTarget(i)   == <<"link", i>>
FormTarget      == <<"form", 0>>
NoTarget        == <<"none", 0>>

Handler(target, type, listener) ==
    [target |-> target, type |-> type, listener |-> listener]

NoFault == "none"

\* ------------------------------------------------------- the setup routines
\* Each takes the document and the bootstrap's progress so far
\* [handlers, fault, ran, log] and returns the progress after it.

\* The non-null assertions vanish at run time: with no trigger in the document
\* the call on null throws; a missing panel goes unnoticed until a click.
setupMobileMenu(d, st) ==
    IF d.menuButton = 0
    THEN [st EXCEPT !.fault = "TypeError"]
    ELSE [st EXCEPT !.handlers =
              Append(@, Handler(ButtonTarget(d.menuButton), "click", "toggleMenu"))]

setupSmoothScrolling(d, st) ==
    [st EXCEPT !.handlers =
         @ \o [i \in 1..Len(d.links) |-> Handler(LinkTarget(i), "click", "smoothScroll")]]

setupContactForm(d, st) ==
    IF d.form.present
    THEN [st EXCEPT !.handlers = Append(@, Handler(FormTarget, "submit", "submitForm"))]
    ELSE st

\* the listener setupButtons gives a button with this text content
RouteIgnoresCase(label) ==
    LET t == Trim(label)
    IN  IF t = GetStarted \/ t = GetAQuote THEN "scrollToContact"
        ELSE IF t = ViewWork \/ t = LowerViewWork THEN "scrollToPortfolio"
        ELSE "none"

RouteOf(label) ==
    LET t == Trim(label)
    IN  IF t = GetStarted \/ t = GetAQuote THEN "scrollToContact"
        ELSE IF t = ViewWork THEN "scrollToPortfolio"
        ELSE "none"

setupButtons(d, st) ==
    [st EXCEPT !.handlers =
         @ \o SelectSeq([i \in 1..Len(d.buttons) |->
                            Handler(ButtonTarget(i), "click", RouteOf(d.buttons[i]))],
                        LAMBDA h : h.listener # "none")]

\* ------------------------------------------------------------ the bootstrap
\* the two console lines (each begins with a pictograph, left out here)
StartLine    == "Website initialized with TypeScript!"
CompleteLine == "All functionality is now active!"

\* the order in which the DOMContentLoaded callback calls the routines
InitOrder ==
    <<"setupMobileMenu", "setupSmoothScrolling", "setupContactForm", "setupButtons">>

Routine(name, d, st) ==
    CASE name = "setupMobileMenu"      -> setupMobileMenu(d, st)
      [] name = "setupSmoothScrolling" -> setupSmoothScrolling(d, st)
      [] name = "setupContactForm"     -> setupContactForm(d, st)
      [] name = "setupButtons"         -> setupButtons(d, st)

\* the calls in sequence; an exception ends the callback where it is thrown
RECURSIVE RunSetups(_, _, _)
RunSetups(routines, d, st) ==
    IF routines = <<>> \/ st.fault # NoFault
    THEN st
    ELSE RunSetups(Tail(routines), d,
                   Routine(Head(routines), d, [st EXCEPT !.ran = Append(@, Head(routines))]))

\* the DOMContentLoaded callback
OnDOMContentLoaded(routines, d) ==
    LET st == RunSetups(routines, d,
                        [handlers |-> <<>>, fault |-> NoFault, ran |-> <<>>,
                         log |-> <<StartLine>>])
    IN  IF st.fault = NoFault THEN [st EXCEPT !.log = Append(@, CompleteLine)] ELSE st

\* ------------------------------------------------------------ the listeners
\* Each takes the document, the index of the element it was registered on and
\* the event's context so far [classList, values, toggles, prevented, scrolls,
\* alerts, faults], and returns the context after it.

Scroll(id, block) == [id |-> id, behavior |-> "smooth", block |-> block]

Throw(ctx, error) == [ctx EXCEPT !.faults = Append(@, error)]

\* the click listener of the menu trigger
toggleMenu(d, i, ctx) ==
    IF ~d.hasMenu
    THEN Throw(ctx, "TypeError")
    ELSE [ctx EXCEPT !.classList = ToggleAll(@, ToggledClasses), !.toggles = @ + 1]

\* the click listener of a fragment-style link
smoothScroll(d, i, ctx) ==
    LET prevented == [ctx EXCEPT !.prevented = TRUE]
        targetId  == d.links[i]
    IN  IF targetId # <<>> /\ targetId # <<"#">>
        THEN LET targetSection == QuerySelector(targetId, d.ids)
             IN  CASE targetSection.kind = "SyntaxError" -> Throw(prevented, "SyntaxError")
                   [] targetSection.kind = "element" ->
                        [prevented EXCEPT !.scrolls = Append(@, Scroll(targetSection.id, "start"))]
                   [] targetSection.kind = "null" -> prevented
        ELSE prevented

\* the submit listener of the form
submitFormAlwaysResets(d, i, ctx) ==
    LET name    == ValueOf(d.form, ctx.values, "name")
        email   == ValueOf(d.form, ctx.values, "email")
        subject == ValueOf(d.form, ctx.values, "subject")
        message == ValueOf(d.form, ctx.values, "message")
    IN  IF Truthy(name) /\ Truthy(email) /\ Truthy(subject) /\ Truthy(message)
        THEN [ctx EXCEPT !.prevented = TRUE,
                         !.alerts = Append(@, SuccessText(name.value, email.value)),
                         !.values = FormReset(d.form, @)]
        ELSE [ctx EXCEPT !.prevented = TRUE,
                         !.alerts = Append(@, FailureText),
                         !.values = FormReset(d.form, @)]

submitForm(d, i, ctx) ==
    LET name    == ValueOf(d.form, ctx.values, "name")
        email   == ValueOf(d.form, ctx.values, "email")
        subject == ValueOf(d.form, ctx.values, "subject")
        message == ValueOf(d.form, ctx.values, "message")
    IN  IF Truthy(name) /\ Truthy(email) /\ Truthy(subject) /\ Truthy(message)
        THEN [ctx EXCEPT !.prevented = TRUE,
                         !.alerts = Append(@, SuccessText(name.value, email.value)),
                         !.values = FormReset(d.form, @)]
        ELSE [ctx EXCEPT !.prevented = TRUE,
                         !.alerts = Append(@, FailureText)]

\* the click listener of a "Get Started" or "Get a Quote" button
scrollToContact(d, i, ctx) ==
    LET contactSection == QuerySelector(ContactSelector, d.ids)
    IN  IF contactSection.kind = "element"
        THEN [ctx EXCEPT !.scrolls = Append(@, Scroll(contactSection.id, "start"))]
        ELSE ctx

\* the click listener of a "View Work" button
scrollToPortfolio(d, i, ctx) ==
    LET portfolioSection == QuerySelector(PortfolioSelector, d.ids)
    IN  IF portfolioSection.kind = "element"
        THEN [ctx EXCEPT !.scrolls = Append(@, Scroll(portfolioSection.id, "start"))]
        ELSE ctx

Listener(h, d, ctx) ==
    CASE h.listener = "toggleMenu"        -> toggleMenu(d, h.target[2], ctx)
      [] h.listener = "smoothScroll"      -> smoothScroll(d, h.target[2], ctx)
      [] h.listener = "submitForm"        -> submitForm(d, h.target[2], ctx)
      [] h.listener = "scrollToContact"   -> scrollToContact(d, h.target[2], ctx)
      [] h.listener = "scrollToPortfolio" -> scrollToPortfolio(d, h.target[2], ctx)

\* Event dispatch: the listeners registered on the target for the event type
\* run in registration order; an exception in one is reported and the next runs.
RECURSIVE Dispatch(_, _, _, _, _)
Dispatch(hs, d, target, type, ctx) ==
    IF hs = <<>> THEN ctx
    ELSE LET h == Head(hs)
         IN  Dispatch(Tail(hs), d, target, type,
                      IF h.target = target /\ h.type = type THEN Listener(h, d, ctx) ELSE ctx)

\* ------------------------------------------------------------------- state
VARIABLES
    doc,        \* the host document (its structure does not change)
    order,      \* the order in which the bootstrap calls the setup routines
    pc,         \* "script": main.ts not yet run; "waiting": init() has run;
                \* "ready": the DOMContentLoaded callback has run
    handlers,   \* the listeners registered on elements, in registration order
    ran,        \* the setup routines called so far, in call order
    log,        \* the console lines written so far
    bootFault,  \* the exception that ended the DOMContentLoaded callback, if any
    classList,  \* the classes of the navigation panel
    menuClicks, \* completed runs of the menu-toggle listener
    values,     \* the current value of each form control
    last        \* what the most recent event did

vars == <<doc, order, pc, handlers, ran, log, bootFault, classList, menuClicks, values, last>>

NoEvent ==
    [kind |-> "none", target |-> NoTarget, prevented |-> FALSE, scrolls |-> <<>>,
     alerts |-> <<>>, faults |-> <<>>, before |-> NoDefaults]

Orders ==
    {o \in [1..Len(InitOrder) -> Range(InitOrder)] : Range(o) = Range(InitOrder)}

InitWith(docs, orders) ==
    /\ doc \in docs
    /\ order \in orders
    /\ pc = "script"
    /\ handlers = <<>>
    /\ ran = <<>>
    /\ log = <<>>
    /\ bootFault = NoFault
    /\ classList = doc.menuClasses
    /\ menuClicks = 0
    /\ values = doc.form.defaults
    /\ last = NoEvent

Init == InitWith(Documents, {InitOrder})

\* the documents of the any-order bootstrap
InitAnyOrder == InitWith(MixedDocs, Orders)

\* main.ts runs: init() registers the DOMContentLoaded callback
LoadScript ==
    /\ pc = "script"
    /\ pc' = "waiting"
    /\ UNCHANGED <<doc, order, handlers, ran, log, bootFault, classList, menuClicks,
                   values, last>>

\* the document is parsed: the callback runs
DOMContentLoaded ==
    /\ pc = "waiting"
    /\ LET st == OnDOMContentLoaded(order, doc)
       IN  /\ handlers' = st.handlers
           /\ ran' = st.ran
           /\ log' = st.log
           /\ bootFault' = st.fault
    /\ pc' = "ready"
    /\ UNCHANGED <<doc, order, classList, menuClicks, values, last>>

\* an event of the given type on the given element
Fire(kind, target, type) ==
    LET ctx == Dispatch(handlers, doc, target, type,
                        [classList |-> classList, values |-> values, toggles |-> 0,
                         prevented |-> FALSE, scrolls |-> <<>>, alerts |-> <<>>,
                         faults |-> <<>>])
    IN  /\ menuClicks + ctx.toggles <= MaxClicks
        /\ menuClicks' = menuClicks + ctx.toggles
        /\ classList' = ctx.classList
        /\ values' = ctx.values
        /\ last' = [kind |-> kind, target |-> target, prevented |-> ctx.prevented,
                    scrolls |-> ctx.scrolls, alerts |-> ctx.alerts,
                    faults |-> ctx.faults, before |-> values]
        /\ UNCHANGED <<doc, order, pc, handlers, ran, log, bootFault>>

ClickButton(i) ==
    /\ pc = "ready"
    /\ i \in 1..Len(doc.buttons)
    /\ Fire("clickButton", ButtonTarget(i), "click")

ClickLink(i) ==
    /\ pc = "ready"
    /\ i \in 1..Len(doc.links)
    /\ Fire("clickLink", LinkTarget(i), "click")

Submit ==
    /\ pc = "ready"
    /\ doc.form.present
    /\ Fire("submit", FormTarget, "submit")

\* the user edits a control of the form
TypeField(f, v) ==
    /\ pc = "ready"
    /\ f \in doc.form.fields
    /\ v # values[f]
    /\ values' = [values EXCEPT ![f] = v]
    /\ last' = [NoEvent EXCEPT !.kind = "input", !.target = FormTarget, !.before = values]
    /\ UNCHANGED <<doc, order, pc, handlers, ran, log, bootFault, classList, menuClicks>>

Next ==
    \/ LoadScript
    \/ DOMContentLoaded
    \/ \E i \in 1..Len(doc.buttons) : ClickButton(i)
    \/ \E i \in 1..Len(doc.links) : ClickLink(i)
    \/ Submit
    \/ \E f \in FieldNames : \E v \in {"", Sample(f)} : TypeField(f, v)

Spec == Init /\ [][Next]_vars

SpecAnyOrder == InitAnyOrder /\ [][Next]_vars

\* ------------------------------------------------------------- properties
Registered(target, listener) ==
    \E k \in 1..Len(handlers) :
        handlers[k].target = target /\ handlers[k].listener = listener

Called(routine) == routine \in Range(ran)

\* C1: when the menu trigger, the navigation panel or both are absent from the
\* document, setupMobileMenu registers no click handler and no unhandled fault
\* is raised, neither by the setup nor by a later click.
MenuAbsenceIsSilent ==
    (pc = "ready" /\ (doc.menuButton = 0 \/ ~doc.hasMenu)) =>
        /\ bootFault = NoFault
        /\ \A i \in 1..Len(doc.buttons) : ~Registered(ButtonTarget(i), "toggleMenu")
        /\ last.faults = <<>>

\* the controls of the form all held a non-empty value when the last event began
AllFilled ==
    \A f \in FieldNames : Truthy(ValueOf(doc.form, last.before, f))

\* C2: a submit handled by the contact form's listener with name, email, subject
\* and message all non-empty suppresses the default submission, shows exactly one
\* alert, the success text with the name and email read at that submit, and
\* leaves every field of the form empty.
SubmitSuccessClearsForm ==
    (last.kind = "submit" /\ Registered(FormTarget, "submitForm") /\ AllFilled) =>
        /\ last.prevented
        /\ last.alerts = <<SuccessText(last.before["name"], last.before["email"])>>
        /\ \A f \in FieldNames : values[f] = ""

\* C3: a submit handled by the contact form's listener with at least one of the
\* four values missing (empty string, or control absent so the value is
\* undefined) suppresses the default submission, shows exactly one alert, the
\* failure text, and leaves every field with the value it had before the
\* submit, however many such submits came before.
SubmitFailureKeepsForm ==
    (last.kind = "submit" /\ Registered(FormTarget, "submitForm") /\ ~AllFilled) =>
        /\ last.prevented
        /\ last.alerts = <<FailureText>>
        /\ values = last.before

\* a failed submit of a partly filled form whose values differ from its defaults
WitnessSubmitFailure ==
    /\ last.kind = "submit"
    /\ Registered(FormTarget, "submitForm")
    /\ last.alerts = <<FailureText>>
    /\ last.before["name"] = Sample("name")
    /\ last.before["message"] = ""
    /\ last.before # doc.form.defaults
    /\ values = last.before

\* the fragment of a link resolves to an element of the document
FragmentResolves(href) ==
    href # <<>> /\ href # <<"#">> /\ Tail(href) \in doc.ids

\* C4: a click on a fragment-style link that setupSmoothScrolling found
\* suppresses the default navigation and raises no fault; it calls a smooth
\* scroll-into-view exactly once, on the resolved element, if and only if the
\* fragment is non-empty, is not the bare "#" and resolves to an element.
LinkClickScrollsIffResolves ==
    (last.kind = "clickLink" /\ Registered(last.target, "smoothScroll")) =>
        LET href == doc.links[last.target[2]]
        IN  /\ last.prevented
            /\ last.faults = <<>>
            /\ last.scrolls = IF FragmentResolves(href)
                              THEN <<Scroll(Tail(href), "start")>>
                              ELSE <<>>

Recognized == {GetStarted, GetAQuote, ViewWork}

\* C5: once setupButtons has scanned the document, a click on a button scrolls
\* exactly once to the contact section when its trimmed label is exactly "Get
\* Started" or "Get a Quote" and exactly once to the portfolio section when it
\* is exactly "View Work" (the section existing); a button with any other label
\* has no routing handler and a click on it scrolls nothing.
ButtonRouting ==
    (pc = "ready" /\ Called("setupButtons")) =>
        /\ \A i \in 1..Len(doc.buttons) :
              Trim(doc.buttons[i]) \notin Recognized =>
                  /\ ~Registered(ButtonTarget(i), "scrollToContact")
                  /\ ~Registered(ButtonTarget(i), "scrollToPortfolio")
        /\ last.kind = "clickButton" =>
              LET label == Trim(doc.buttons[last.target[2]])
              IN  last.scrolls =
                      IF label \in {GetStarted, GetAQuote} /\ contactId \in doc.ids
                      THEN <<Scroll(contactId, "start")>>
                      ELSE IF label = ViewWork /\ portfolioId \in doc.ids
                      THEN <<Scroll(portfolioId, "start")>>
                      ELSE <<>>

\* a click on a "View Work" button whose text content has surrounding white
\* space has scrolled to the portfolio section
WitnessButtonRouting ==
    /\ pc = "ready"
    /\ Called("setupButtons")
    /\ last.kind = "clickButton"
    /\ doc.buttons[last.target[2]] = PaddedViewWork
    /\ last.scrolls = <<Scroll(portfolioId, "start")>>

\* C6: after an even number of clicks on the trigger (two in particular) each
\* of the ten toggled classes of the navigation panel is present exactly when
\* it was present in the original markup.
MenuRoundTrip ==
    (doc.hasMenu /\ menuClicks % 2 = 0) =>
        \A c \in Range(ToggledClasses) : (c \in classList) <=> (c \in doc.menuClasses)

\* two clicks have been handled and the panel is back to its markup
WitnessMenuRoundTrip ==
    /\ doc.hasMenu
    /\ menuClicks = 2
    /\ last.kind = "clickButton"
    /\ classList = doc.menuClasses

FullyOpen(cl)   == \A c \in Range(ToggledClasses) : (c \in cl) <=> (c # "hidden")
FullyClosed(cl) == \A c \in Range(ToggledClasses) : (c \in cl) <=> (c = "hidden")

\* C7: after any sequence of clicks on the trigger the panel matched by the
\* setup selector is fully open ("hidden" absent, the nine others present) or
\* fully closed ("hidden" present, the nine others absent).
MenuLockstep ==
    (doc.hasMenu /\ menuClicks >= 1) => FullyOpen(classList) \/ FullyClosed(classList)

\* C8: nothing is set up, registered or logged before DOMContentLoaded; once it
\* has fired the four routines have run exactly once each in the order of init
\* and both log lines have been written, start first and complete last.
BootstrapOrdering ==
    /\ pc # "ready" => handlers = <<>> /\ ran = <<>> /\ log = <<>>
    /\ pc = "ready" => ran = InitOrder /\ log = <<StartLine, CompleteLine>>

\* C9: setup against a document with no form, no button bearing a recognized
\* label and no fragment-style link registers no handler and raises no fault.
EmptyDocumentSetup ==
    (/\ pc = "ready"
     /\ ~doc.form.present
     /\ doc.links = <<>>
     /\ \A i \in 1..Len(doc.buttons) : Trim(doc.buttons[i]) \notin Recognized) =>
        handlers = <<>> /\ bootFault = NoFault

\* C10: whatever the order in which the bootstrap calls the four routines, the
\* set of handlers registered at its end is the one the order of init registers.
SetupOrderIndependent ==
    pc = "ready" => Range(handlers) = Range(OnDOMContentLoaded(InitOrder, doc).handlers)

\* ------------------------------------------------------- supporting facts
\* What the code does for defaults in the markup and for clean panel markup.

\* a successful submit leaves every control at its default value
SubmitSuccessRestoresDefaults ==
    (last.kind = "submit" /\ Registered(FormTarget, "submitForm") /\ AllFilled) =>
        /\ last.prevented
        /\ last.alerts = <<SuccessText(last.before["name"], last.before["email"])>>
        /\ values = doc.form.defaults

\* a panel whose markup carries none of the nine other classes stays in lockstep
LockstepFromCleanMarkup ==
    (doc.hasMenu /\ FullyClosed(doc.menuClasses)) =>
        FullyOpen(classList) \/ FullyClosed(classList)

====
